---------------------------- MODULE Spec2Model ----------------------------
(***************************************************************************)
(* State-machine model of the notebook multi_label_classify.ipynb:         *)
(* data loading, label binarization, the dataset adapter, the metrics      *)
(* function handed to the trainer, the best-checkpoint training driver and *)
(* the inference cell.                                                     *)
(*                                                                         *)
(* Numbers.  A real value is an exact fraction <<num, den>> with den > 0;  *)
(* <<0, 0>> is NaN.  A raw model score (logit) x is given by its odds      *)
(* e^x = a/b, written <<a, b>> with a, b > 0, so that                      *)
(* sigmoid(x) = e^x / (1 + e^x) = a / (a + b) is computed exactly.         *)
(*                                                                         *)
(* Labels.  A label string is written as the natural number giving its     *)
(* place in the lexicographic order of strings, so sorted() is the         *)
(* numeric sort.  A label list is written as the set of its elements       *)
(* (MultiLabelBinarizer reads every list through set()).                   *)
(***************************************************************************)
EXTENDS Integers, Sequences, FiniteSets, TLC

VARIABLES
    pc,                   \* which cell / call the notebook has completed
    train_df, test_df,    \* the two loaded tables, label column already split
    train_texts, test_texts,
    train_labels, test_labels,
    classes_,             \* multilabel.classes_, <<>> before fit
    num_labels,           \* width of the classification head
    train_dataset, test_dataset,
    item,                 \* the example the data loader holds, if any
    binarizer_bin,        \* contents of binarizer.bin
    predictions, label_ids,  \* the EvalPrediction handed to compute_metrics
    y_pred,               \* the binary prediction matrix of the last metrics call
    metrics,              \* the mapping returned by compute_metrics
    multilabel_binarizer, \* the binarizer unpickled by the inference cell
    outputs,              \* logits of the new instance in the inference cell
    binary_predictions,
    predicted_labels,
    runs                  \* the two training runs compared for non-interference

vars == <<pc, train_df, test_df, train_texts, test_texts, train_labels,
          test_labels, classes_, num_labels, train_dataset, test_dataset,
          item, binarizer_bin, predictions, label_ids, y_pred, metrics,
          multilabel_binarizer, outputs, binary_predictions,
          predicted_labels, runs>>

dataVars == <<train_df, test_df, train_texts, test_texts, train_labels,
              test_labels, classes_, num_labels, train_dataset,
              test_dataset, item, binarizer_bin>>

evalVars == <<predictions, label_ids, y_pred, metrics>>

inferVars == <<multilabel_binarizer, outputs, binary_predictions,
               predicted_labels>>

None == "None"

-----------------------------------------------------------------------------
(* Bounds of the model *)

\* largest number of cells (examples x labels) of an evaluated score matrix
MaxCells == 4

\* largest number of rows of the training table
MaxTrainRows == 2

\* largest number of rows of the test table
MaxTestRows == 1

\* number of epochs of a modelled training run (the notebook asks for 10)
MaxEpochs == 3

-----------------------------------------------------------------------------
(* Exact arithmetic *)

RECURSIVE Gcd(_, _)
Gcd(a, b) == IF b = 0 THEN a ELSE Gcd(b, a % b)

NaN == <<0, 0>>

IsNaN(r) == r[2] = 0

\* the canonical form of a fraction (a float has one representation)
Norm(r) ==
    IF r[2] = 0 THEN NaN
    ELSE LET g == Gcd(r[1], r[2]) IN <<r[1] \div g, r[2] \div g>>

RatAdd(r, s) ==
    IF IsNaN(r) \/ IsNaN(s) THEN NaN
    ELSE Norm(<<r[1] * s[2] + s[1] * r[2], r[2] * s[2]>>)

RatDivInt(r, n) == IF IsNaN(r) \/ n = 0 THEN NaN ELSE Norm(<<r[1], r[2] * n>>)

\* comparisons with NaN are false, as for floats
RatGeq(r, s) == ~IsNaN(r) /\ ~IsNaN(s) /\ r[1] * s[2] >= s[1] * r[2]

RatGt(r, s) == ~IsNaN(r) /\ ~IsNaN(s) /\ r[1] * s[2] > s[1] * r[2]

RatEq(r, s) == ~IsNaN(r) /\ ~IsNaN(s) /\ r[1] * s[2] = s[1] * r[2]

RECURSIVE SumInts(_, _)
SumInts(f, n) == IF n = 0 THEN 0 ELSE f[n] + SumInts(f, n - 1)

RECURSIVE SumRats(_, _)
SumRats(f, n) == IF n = 0 THEN <<0, 1>> ELSE RatAdd(f[n], SumRats(f, n - 1))

\* np.mean of a vector of n values
Mean(f, n) == RatDivInt(SumRats(f, n), n)

Rows(m) == Len(m)

Cols(m) == IF Len(m) = 0 THEN 0 ELSE Len(m[1])

Column(m, j) == [i \in 1..Rows(m) |-> m[i][j]]


-----------------------------------------------------------------------------
(* The metrics function: multi_label_metrics and compute_metrics *)

\* raw scores a model emits, as odds: probabilities 1/10, 1/5, 3/10 and 1/2
Scores == {<<1, 9>>, <<1, 4>>, <<3, 7>>, <<1, 1>>}

\* threshold=0.3, the default of multi_label_metrics
DefaultThreshold == <<3, 10>>

\* mutant: the 0.5 the cell's comment announces
InferenceThresholdOfComment == <<1, 2>>

\* the literal 0.1 of the inference cell
InferenceThreshold == <<1, 10>>

\* torch.nn.Sigmoid on one score given by its odds a/b: a / (a + b)
Sigmoid(x) == Norm(<<x[1], x[1] + x[2]>>)

\* probs = sigmoid(torch.Tensor(predictions)), elementwise
SigmoidAll(m) == [i \in 1..Rows(m) |-> [j \in 1..Cols(m) |-> Sigmoid(m[i][j])]]

\* np.zeros(shape)
Zeros(n, l) == [i \in 1..n |-> [j \in 1..l |-> 0]]

\* mutant: a strict comparison, probs > threshold
ThresholdPredictionsStrict(probs, threshold) ==
    [i \in 1..Rows(probs) |-> [j \in 1..Cols(probs) |->
        IF RatGt(probs[i][j], threshold) THEN 1 ELSE 0]]

\* y_pred = np.zeros(probs.shape); y_pred[np.where(probs >= threshold)] = 1
ThresholdPredictions(probs, threshold) ==
    LET where == {ij \in (1..Rows(probs)) \X (1..Cols(probs)) :
                      RatGeq(probs[ij[1]][ij[2]], threshold)}
        zeros == Zeros(Rows(probs), Cols(probs))
    IN  [i \in 1..Rows(probs) |-> [j \in 1..Cols(probs) |->
            IF <<i, j>> \in where THEN 1 ELSE zeros[i][j]]]

\* sklearn's per-label counts
TruePositives(t, p) == Cardinality({i \in DOMAIN t : t[i] = 1 /\ p[i] = 1})

PredSum(p) == Cardinality({i \in DOMAIN p : p[i] = 1})

TrueSum(t) == Cardinality({i \in DOMAIN t : t[i] = 1})

\* a ratio with zero_division: 0/0 is reported as 0.0
PrfDivide(n, d) == IF d = 0 THEN <<0, 1>> ELSE Norm(<<n, d>>)

Precision(t, p) == PrfDivide(TruePositives(t, p), PredSum(p))

Recall(t, p) == PrfDivide(TruePositives(t, p), TrueSum(t))

\* F1 of one label column: the harmonic mean of precision and recall
FScore(t, p) ==
    LET pr == Precision(t, p)
        rc == Recall(t, p)
        den == RatAdd(pr, rc)
    IN  IF den[1] = 0 THEN <<0, 1>>
        ELSE Norm(<<2 * pr[1] * rc[1] * den[2], pr[2] * rc[2] * den[1]>>)

\* mutant: the mean taken over the labels that have a true or a predicted
\* positive only
F1MacroSupported(y_true, y_hat) ==
    LET support == {j \in 1..Cols(y_true) :
                       TrueSum(Column(y_true, j)) + PredSum(Column(y_hat, j)) > 0}
        total == SumRats([j \in 1..Cols(y_true) |->
                     FScore(Column(y_true, j), Column(y_hat, j))], Cols(y_true))
    IN  IF support = {} THEN <<0, 1>> ELSE RatDivInt(total, Cardinality(support))

\* f1_score(y_true, y_pred, average='macro')
F1Macro(y_true, y_hat) ==
    Mean([j \in 1..Cols(y_true) |->
             FScore(Column(y_true, j), Column(y_hat, j))], Cols(y_true))

\* binary ROC-AUC of one label column for real-valued scores s: the share of
\* (positive, negative) pairs ranked correctly, ties counting one half;
\* undefined when only one class is present in the column
RocAucBinary(t, s) ==
    LET pos == {i \in DOMAIN t : t[i] = 1}
        neg == {i \in DOMAIN t : t[i] # 1}
        gt == Cardinality({pn \in pos \X neg : RatGt(s[pn[1]], s[pn[2]])})
        eq == Cardinality({pn \in pos \X neg : RatEq(s[pn[1]], s[pn[2]])})
    IN  IF pos = {} \/ neg = {} THEN NaN
        ELSE Norm(<<2 * gt + eq, 2 * Cardinality(pos) * Cardinality(neg)>>)

\* a 0/1 matrix read as a matrix of real scores
AsScores(m) == [i \in 1..Rows(m) |-> [j \in 1..Cols(m) |-> <<m[i][j], 1>>]]

\* roc_auc_score(y_true, y_score, average='macro')
RocAucMacro(y_true, y_score) ==
    Mean([j \in 1..Cols(y_true) |->
             RocAucBinary(Column(y_true, j), Column(y_score, j))], Cols(y_true))

\* whether roc_auc_score has both classes in every label column
RocAucDefined(y_true) ==
    \A j \in 1..Cols(y_true) :
        /\ \E i \in 1..Rows(y_true) : y_true[i][j] = 1
        /\ \E i \in 1..Rows(y_true) : y_true[i][j] # 1

\* mutant: the share of examples with at least one wrong label
HammingLossByExample(y_true, y_hat) ==
    LET wrong == {i \in 1..Rows(y_true) : y_true[i] # y_hat[i]}
    IN  Norm(<<Cardinality(wrong), Rows(y_true)>>)

\* hamming_loss(y_true, y_pred)
HammingLoss(y_true, y_hat) ==
    LET differ == {ij \in (1..Rows(y_true)) \X (1..Cols(y_true)) :
                       y_true[ij[1]][ij[2]] # y_hat[ij[1]][ij[2]]}
    IN  Norm(<<Cardinality(differ), Rows(y_true) * Cols(y_true)>>)

\* the local y_pred of multi_label_metrics
MultiLabelPred(preds, threshold) ==
    ThresholdPredictions(SigmoidAll(preds), threshold)

\* the score argument the notebook passes to roc_auc_score: y_pred, of the
\* two matrices in scope
RocAucArgument(probs, y_hat) == AsScores(y_hat)

\* multi_label_metrics(predictions, labels, threshold): the returned mapping,
\* with the local y_pred beside it
MultiLabelMetrics(preds, labels, threshold) ==
    LET probs == SigmoidAll(preds)
        y_hat == ThresholdPredictions(probs, threshold)
        y_true == labels
        f1 == F1Macro(y_true, y_hat)
        roc_auc == RocAucMacro(y_true, RocAucArgument(probs, y_hat))
        hamming == HammingLoss(y_true, y_hat)
    IN  [y_pred |-> y_hat,
         metrics |-> [roc_auc |-> roc_auc, hamming_loss |-> hamming, f1 |-> f1]]

\* p.predictions as the trainer may hand it over: a tuple or the bare array
EvalPrediction(is_tuple, logits, labels) ==
    [is_tuple |-> is_tuple,
     predictions |-> IF is_tuple THEN <<logits>> ELSE logits,
     label_ids |-> labels]

\* preds = p.predictions[0] if isinstance(p.predictions, tuple) else p.predictions
Preds(p) == IF p.is_tuple THEN p.predictions[1] ELSE p.predictions

\* compute_metrics(p): multi_label_metrics with the default threshold
ComputeMetricsCall(p) == MultiLabelMetrics(Preds(p), p.label_ids, DefaultThreshold)

\* result = multi_label_metrics(...); return result
ComputeMetricsResult(p) == ComputeMetricsCall(p).metrics

\* compute_metrics returns; with a one-class label column the roc_auc entry
\* is NaN (scikit-learn releases that warn instead of raising)
ComputeMetrics ==
    /\ pc = "evaluating"
    /\ \E is_tuple \in BOOLEAN :
         LET p == EvalPrediction(is_tuple, predictions, label_ids)
             call == ComputeMetricsCall(p)
         IN  /\ metrics' = call.metrics
             /\ y_pred' = call.y_pred
    /\ pc' = "evaluated"
    /\ UNCHANGED <<dataVars, predictions, label_ids, inferVars, runs>>

\* compute_metrics raises out of roc_auc_score ("Only one class present in
\* y_true"): scikit-learn releases that raise
ComputeMetricsRaises ==
    /\ pc = "evaluating"
    /\ ~RocAucDefined(label_ids)
    /\ pc' = "raised"
    /\ UNCHANGED <<dataVars, evalVars, inferVars, runs>>

-----------------------------------------------------------------------------
(* The inference cell *)

RECURSIVE TakeClassesShifted(_, _, _)
\* mutant: positions read one place off (classes counted from 0)
TakeClassesShifted(classes, row, j) ==
    IF j = 0 THEN <<>>
    ELSE IF row[j] # 0
         THEN Append(TakeClassesShifted(classes, row, j - 1),
                     classes[(j % Len(classes)) + 1])
         ELSE TakeClassesShifted(classes, row, j - 1)

RECURSIVE TakeClasses(_, _, _)
\* classes_.take(indices of the nonzero entries of row), as a tuple
TakeClasses(classes, row, j) ==
    IF j = 0 THEN <<>>
    ELSE IF row[j] # 0 THEN Append(TakeClasses(classes, row, j - 1), classes[j])
         ELSE TakeClasses(classes, row, j - 1)

\* MultiLabelBinarizer.inverse_transform(yt): one tuple of labels per row
InverseTransform(classes, yt) ==
    [i \in 1..Rows(yt) |-> TakeClasses(classes, yt[i], Len(classes))]

\* mutant: an inclusive comparison, predicted_probabilities >= 0.1
InferencePredictionsInclusive(probs) ==
    [i \in 1..Rows(probs) |-> [j \in 1..Cols(probs) |->
        IF RatGeq(probs[i][j], InferenceThreshold) THEN 1 ELSE 0]]

\* (predicted_probabilities > 0.1).astype(int)
InferencePredictions(probs) ==
    [i \in 1..Rows(probs) |-> [j \in 1..Cols(probs) |->
        IF RatGt(probs[i][j], InferenceThreshold) THEN 1 ELSE 0]]

\* the inference cell on the logits the model returns for new_instance
InferenceCell(logits) ==
    LET predicted_probabilities == SigmoidAll(logits)
        binary == InferencePredictions(predicted_probabilities)
    IN  /\ multilabel_binarizer' = binarizer_bin
        /\ outputs' = logits
        /\ binary_predictions' = binary
        /\ predicted_labels' = InverseTransform(classes_, binary)[1]
        /\ pc' = "inferred"

\* the new instance is a text of the evaluation set: the model returns for
\* it the scores it returned in the evaluation
InferSeen ==
    /\ pc = "evaluated"
    /\ \E i \in 1..Rows(predictions) : InferenceCell(<<predictions[i]>>)
    /\ UNCHANGED <<dataVars, evalVars, runs>>

-----------------------------------------------------------------------------
(* Evaluation followed by inference, on every score matrix within bounds *)

Shapes == {nl \in (1..MaxCells) \X (1..MaxCells) : nl[1] * nl[2] <= MaxCells}

NoRuns == <<>>

MetricsInit ==
    /\ pc = "evaluating"
    /\ \E nl \in Shapes :
         /\ predictions \in [1..nl[1] -> [1..nl[2] -> Scores]]
         /\ label_ids \in [1..nl[1] -> [1..nl[2] -> {0, 1}]]
         /\ classes_ = [j \in 1..nl[2] |-> j]
         /\ num_labels = nl[2]
    /\ y_pred = <<>>
    /\ metrics = None
    /\ train_df = <<>> /\ test_df = <<>>
    /\ train_texts = <<>> /\ test_texts = <<>>
    /\ train_labels = <<>> /\ test_labels = <<>>
    /\ train_dataset = None /\ test_dataset = None
    /\ item = <<>>
    /\ binarizer_bin = classes_
    /\ multilabel_binarizer = None
    /\ outputs = <<>> /\ binary_predictions = <<>> /\ predicted_labels = <<>>
    /\ runs = NoRuns

MetricsNext == ComputeMetrics \/ ComputeMetricsRaises \/ InferSeen

SpecMetrics == MetricsInit /\ [][MetricsNext]_vars

-----------------------------------------------------------------------------
(* Data loading, the label encoder and the dataset adapter *)

\* the label strings that occur in the two files
LabelUniverse == {1, 2, 3}

\* a parsed label cell: str.split always yields at least one string
LabelLists == (SUBSET LabelUniverse) \ {{}}

\* the tables a file of n rows can hold; the text of a row is opaque
Tables(file, n) ==
    {[i \in 1..n |-> [entry |-> <<file, i>>, labels |-> ls[i]]] :
        ls \in [1..n -> LabelLists]}

\* df[column].tolist()
ToList(df, column) == [i \in 1..Len(df) |-> df[i][column]]

\* train_texts, test_texts, train_labels, test_labels of the loading cell
LoadData ==
    /\ pc = "start"
    /\ train_texts' = ToList(train_df, "entry")
    /\ test_texts' = ToList(test_df, "entry")
    /\ train_labels' = ToList(train_df, "labels")
    /\ test_labels' = ToList(test_df, "labels")
    /\ pc' = "loaded"
    /\ UNCHANGED <<train_df, test_df, classes_, num_labels, train_dataset,
                   test_dataset, item, binarizer_bin, evalVars, inferVars, runs>>

Min(S) == CHOOSE m \in S : \A x \in S : m <= x

RECURSIVE Sorted(_)
\* sorted(S) as a sequence
Sorted(S) == IF S = {} THEN <<>> ELSE <<Min(S)>> \o Sorted(S \ {Min(S)})

\* MultiLabelBinarizer.fit: classes_ = sorted(set(chain.from_iterable(y)))
FitClasses(y) == Sorted(UNION {y[i] : i \in 1..Len(y)})

\* class_to_index of a fitted binarizer
ClassMapping(classes) ==
    [c \in {classes[j] : j \in 1..Len(classes)} |->
        CHOOSE j \in 1..Len(classes) : classes[j] = c]

\* one row of MultiLabelBinarizer._transform: the indices of the known
\* labels are set, unknown labels are dropped (with a warning)
TransformRow(classes, labels) ==
    LET mapping == ClassMapping(classes)
        index == {mapping[l] : l \in labels \cap DOMAIN mapping}
    IN  [j \in 1..Len(classes) |-> IF j \in index THEN 1 ELSE 0]

\* MultiLabelBinarizer.transform(y) with the fitted classes_
Transform(classes, y) == [i \in 1..Len(y) |-> TransformRow(classes, y[i])]

\* train_labels = multilabel.fit_transform(train_labels)
FitTransform ==
    /\ pc = "loaded"
    /\ classes_' = FitClasses(train_labels)
    /\ train_labels' = Transform(FitClasses(train_labels), train_labels)
    /\ pc' = "fitted"
    /\ UNCHANGED <<train_df, test_df, train_texts, test_texts, test_labels,
                   num_labels, train_dataset, test_dataset, item,
                   binarizer_bin, evalVars, inferVars, runs>>

\* mutant: the binarizer is fitted again on the test labels
TestClassesRefit(fitted, y) == FitClasses(y)

\* the vocabulary the test labels are encoded with: the fitted one
TestClasses(fitted, y) == fitted

\* test_labels = multilabel.transform(test_labels)
TransformTest ==
    /\ pc = "fitted"
    /\ test_labels' = Transform(TestClasses(classes_, test_labels), test_labels)
    /\ pc' = "encoded"
    /\ UNCHANGED <<train_df, test_df, train_texts, test_texts, train_labels,
                   classes_, num_labels, train_dataset, test_dataset, item,
                   binarizer_bin, evalVars, inferVars, runs>>

\* num_labels=len(train_labels[0]) of from_pretrained
NumLabels(labels) == Len(labels[1])

LoadModel ==
    /\ pc = "encoded"
    /\ num_labels' = NumLabels(train_labels)
    /\ pc' = "model"
    /\ UNCHANGED <<train_df, test_df, train_texts, test_texts, train_labels,
                   test_labels, classes_, train_dataset, test_dataset, item,
                   binarizer_bin, evalVars, inferVars, runs>>

\* max_len=250 of CaseNoteDataset.__init__
DefaultMaxLen == 250

\* CaseNoteDataset.__init__
CaseNoteDataset(texts, labels, tokenizer) ==
    [texts |-> texts, labels |-> labels, tokenizer |-> tokenizer,
     max_len |-> DefaultMaxLen]

\* CaseNoteDataset.__len__
DatasetLen(ds) == Len(ds.texts)

\* the tokenizer call of __getitem__: truncation and padding to max_length
\* give sequences of exactly max_length tokens
Tokenize(text, max_length) ==
    [input_ids |-> [of |-> text, length |-> max_length],
     attention_mask |-> [of |-> text, length |-> max_length]]

\* CaseNoteDataset.__getitem__(idx), idx counted from 0
GetItemResult(ds, idx) ==
    LET text == ds.texts[idx + 1]
        label == ds.labels[idx + 1]
        encoding == Tokenize(text, ds.max_len)
    IN  [input_ids |-> encoding.input_ids,
         attention_mask |-> encoding.attention_mask,
         labels |-> label]

\* mutant: the test dataset is built over the training texts
TestDatasetTextsOfTrain == train_texts

\* the texts and labels handed to the test dataset
TestDatasetTexts == test_texts

TestDatasetLabels == test_labels

\* train_dataset = CaseNoteDataset(...); test_dataset = CaseNoteDataset(...)
BuildDatasets ==
    /\ pc = "model"
    /\ train_dataset' = CaseNoteDataset(train_texts, train_labels, "tokenizer")
    /\ test_dataset' = CaseNoteDataset(TestDatasetTexts, TestDatasetLabels, "tokenizer")
    /\ pc' = "built"
    /\ UNCHANGED <<train_df, test_df, train_texts, test_texts, train_labels,
                   test_labels, classes_, num_labels, item, binarizer_bin,
                   evalVars, inferVars, runs>>

\* the trainer's data loader reads one example of a dataset
GetItem ==
    /\ pc = "built"
    /\ \E ds \in {train_dataset, test_dataset} :
         \E idx \in 0..(DatasetLen(ds) - 1) :
            item' = <<GetItemResult(ds, idx)>>
    /\ UNCHANGED <<pc, train_df, test_df, train_texts, test_texts,
                   train_labels, test_labels, classes_, num_labels,
                   train_dataset, test_dataset, binarizer_bin, evalVars,
                   inferVars, runs>>

\* the training cell on the data path: the loader's last example is
\* dropped and pickle.dump(multilabel, f) writes binarizer.bin
TrainingCell ==
    /\ pc = "built"
    /\ binarizer_bin' = classes_
    /\ item' = <<>>
    /\ pc' = "trained"
    /\ UNCHANGED <<train_df, test_df, train_texts, test_texts, train_labels,
                   test_labels, classes_, num_labels, train_dataset,
                   test_dataset, evalVars, inferVars, runs>>

\* scores of a text the model was not evaluated on: probabilities 1/10, 1/5
NewScores == {<<1, 9>>, <<1, 4>>}

\* the new instance is a new text
InferNew ==
    /\ pc = "trained"
    /\ \E logits \in [1..num_labels -> NewScores] : InferenceCell(<<logits>>)
    /\ UNCHANGED <<dataVars, evalVars, runs>>

Init ==
    /\ pc = "start"
    /\ \E n \in 1..MaxTrainRows : train_df \in Tables("sample_train_split.csv", n)
    /\ \E n \in 1..MaxTestRows : test_df \in Tables("sample_test_split.csv", n)
    /\ train_texts = <<>> /\ test_texts = <<>>
    /\ train_labels = <<>> /\ test_labels = <<>>
    /\ classes_ = <<>>
    /\ num_labels = 0
    /\ train_dataset = None /\ test_dataset = None
    /\ item = <<>>
    /\ binarizer_bin = None
    /\ predictions = <<>> /\ label_ids = <<>>
    /\ y_pred = <<>> /\ metrics = None
    /\ multilabel_binarizer = None
    /\ outputs = <<>> /\ binary_predictions = <<>> /\ predicted_labels = <<>>
    /\ runs = NoRuns

Next ==
    \/ LoadData
    \/ FitTransform
    \/ TransformTest
    \/ LoadModel
    \/ BuildDatasets
    \/ GetItem
    \/ TrainingCell
    \/ InferNew

Spec == Init /\ [][Next]_vars

-----------------------------------------------------------------------------
(* The training driver: TrainingArguments and Trainer.train(), for two runs *)
(* that start from the same weights, data and seed and are handed metric   *)
(* values of their own at each evaluation                                  *)

Runs == {1, 2}

\* values compute_metrics may return under 'f1'
F1Values == {<<0, 1>>, <<1, 2>>, <<2, 3>>}

\* the TrainingArguments of the notebook that steer the loop (defaults of
\* the arguments it leaves out included)
args ==
    [evaluation_strategy |-> "epoch",
     save_strategy |-> "epoch",
     num_train_epochs |-> MaxEpochs,
     load_best_model_at_end |-> TRUE,
     metric_for_best_model |-> "f1",
     greater_is_better |-> TRUE,
     lr_scheduler_type |-> "linear"]

\* Trainer(...) is given no callbacks: nothing sets should_training_stop
TrainerCallbacks == {}

\* an early-stopping callback of patience 1, which the notebook does not add
StopOnNoImprovement(log_history) ==
    /\ Len(log_history) >= 2
    /\ ~RatGt(log_history[Len(log_history)], log_history[Len(log_history) - 1])

\* mutant: the early-stopping callback is active
ShouldTrainingStopEarly(log_history) == StopOnNoImprovement(log_history)

\* control.should_training_stop after an evaluation
ShouldTrainingStop(log_history) ==
    "EarlyStoppingCallback" \in TrainerCallbacks /\ StopOnNoImprovement(log_history)

\* the linear schedule: the share of learning_rate applied at a step
LearningRate(step) == <<args.num_train_epochs - step, args.num_train_epochs>>

\* one optimizer step (standing for the steps of an epoch): it reads the
\* step counter, the data and the seed, which the two runs share
OptimizerStep(step) == [step |-> step, lr |-> LearningRate(step)]

\* the best-checkpoint bookkeeping of a save: np.greater against best_metric
IsNewBest(run, value) ==
    \/ run.best_model_checkpoint = 0
    \/ IF args.greater_is_better THEN RatGt(value, run.best_metric)
       ELSE RatGt(run.best_metric, value)

NewRun ==
    [epoch |-> 0, updates |-> <<>>, model |-> <<>>, checkpoints |-> <<>>,
     log_history |-> <<>>, best_metric |-> NaN, best_model_checkpoint |-> 0,
     done |-> FALSE]

\* one epoch of trainer.train(): the optimizer steps, then the evaluation
\* that calls compute_metrics, then the save of checkpoint-<epoch>
TrainEpoch(r) ==
    /\ pc = "training"
    /\ ~runs[r].done
    /\ runs[r].epoch < args.num_train_epochs
    /\ ~ShouldTrainingStop(runs[r].log_history)
    /\ \E f1 \in F1Values :
         LET run == runs[r]
             update == OptimizerStep(run.epoch)
             weights == Append(run.model, update)
             best == IsNewBest(run, f1)
         IN  runs' = [runs EXCEPT ![r] =
                 [epoch |-> run.epoch + 1,
                  updates |-> Append(run.updates, update),
                  model |-> weights,
                  checkpoints |-> Append(run.checkpoints, weights),
                  log_history |-> Append(run.log_history, f1),
                  best_metric |-> IF best THEN f1 ELSE run.best_metric,
                  best_model_checkpoint |->
                      IF best THEN run.epoch + 1 ELSE run.best_model_checkpoint,
                  done |-> FALSE]]
    /\ UNCHANGED <<pc, dataVars, evalVars, inferVars>>

\* trainer.train() ends: load_best_model_at_end reloads the best checkpoint
FinishTraining(r) ==
    /\ pc = "training"
    /\ ~runs[r].done
    /\ \/ runs[r].epoch = args.num_train_epochs
       \/ (runs[r].epoch > 0 /\ ShouldTrainingStop(runs[r].log_history))
    /\ LET run == runs[r]
           best == IF args.load_best_model_at_end
                   THEN run.checkpoints[run.best_model_checkpoint]
                   ELSE run.model
       IN  runs' = [runs EXCEPT ![r] = [run EXCEPT !.done = TRUE, !.model = best]]
    /\ UNCHANGED <<pc, dataVars, evalVars, inferVars>>

TrainInit ==
    /\ pc = "training"
    /\ runs = [r \in Runs |-> NewRun]
    /\ train_df = <<>> /\ test_df = <<>>
    /\ train_texts = <<>> /\ test_texts = <<>>
    /\ train_labels = <<>> /\ test_labels = <<>>
    /\ classes_ = <<>>
    /\ num_labels = 0
    /\ train_dataset = None /\ test_dataset = None
    /\ item = <<>>
    /\ binarizer_bin = None
    /\ predictions = <<>> /\ label_ids = <<>>
    /\ y_pred = <<>> /\ metrics = None
    /\ multilabel_binarizer = None
    /\ outputs = <<>> /\ binary_predictions = <<>> /\ predicted_labels = <<>>

TrainNext == \E r \in Runs : TrainEpoch(r) \/ FinishTraining(r)

SpecTrain == TrainInit /\ [][TrainNext]_vars

-----------------------------------------------------------------------------
(* Properties *)

\* compute_metrics has just returned
Evaluated == pc = "evaluated"

\* sigmoid of the score with odds a/b reaches n/d: a/(a+b) >= n/d
SigmoidAtLeast(x, n, d) == d * x[1] >= n * (x[1] + x[2])

\* sigmoid of the score with odds a/b exceeds n/d: a/(a+b) > n/d
SigmoidAbove(x, n, d) == d * x[1] > n * (x[1] + x[2])

\* thresholds a caller of multi_label_metrics may pass
Thresholds == {<<1, 10>>, <<3, 10>>, <<1, 2>>}

\* the elements of a tuple
Elements(t) == {t[k] : k \in 1..Len(t)}

\* the j-th smallest element of a finite set of labels
Kth(V, j) == CHOOSE c \in V : Cardinality({x \in V : x <= c}) = j

\* the distinct labels of the training table
TrainVocabulary == UNION {train_df[i].labels : i \in 1..Len(train_df)}

(* C1: when compute_metrics returns, y_pred has the shape of the score     *)
(* matrix and y_pred[i][j] is 1 exactly when sigmoid(score[i][j]) >= 0.3   *)
(* (a probability equal to the threshold included) and 0 otherwise; the    *)
(* same holds of multi_label_metrics for any threshold a caller passes.    *)
C1_ThresholdedPredictions ==
    Evaluated =>
        /\ Rows(y_pred) = Rows(predictions)
        /\ \A i \in 1..Rows(predictions) :
             /\ Len(y_pred[i]) = Len(predictions[i])
             /\ \A j \in 1..Len(predictions[i]) :
                  /\ y_pred[i][j] \in {0, 1}
                  /\ y_pred[i][j] = 1 <=> SigmoidAtLeast(predictions[i][j], 3, 10)
        /\ \A t \in Thresholds :
             LET y == MultiLabelPred(predictions, t)
             IN  /\ Rows(y) = Rows(predictions)
                 /\ \A i \in 1..Rows(predictions) :
                      /\ Len(y[i]) = Len(predictions[i])
                      /\ \A j \in 1..Len(predictions[i]) :
                           /\ y[i][j] \in {0, 1}
                           /\ y[i][j] = 1 <=>
                                  SigmoidAtLeast(predictions[i][j], t[1], t[2])

\* a probability equal to 0.3 predicted as 1 beside an entry predicted as 0
C1_Witness ==
    /\ pc = "evaluated"
    /\ \E i \in 1..Rows(predictions) : \E j \in 1..Cols(predictions) :
         predictions[i][j] = <<3, 7>> /\ y_pred[i][j] = 1
    /\ \E i \in 1..Rows(predictions) : \E j \in 1..Cols(predictions) :
         y_pred[i][j] = 0

(* C2: the returned roc_auc is the unweighted mean over labels of the      *)
(* per-label ROC-AUC of the sigmoid probabilities (not of the thresholded  *)
(* predictions).                                                           *)
C2_RocAucOfProbabilities ==
    Evaluated =>
        metrics.roc_auc = RocAucMacro(label_ids, SigmoidAll(predictions))

C4_HammingLossIsSlotFraction ==
    Evaluated =>
        LET N == Rows(label_ids)
            L == Cols(label_ids)
            wrong == SumInts([i \in 1..N |->
                        SumInts([j \in 1..L |->
                            IF y_pred[i][j] = label_ids[i][j] THEN 0 ELSE 1], L)], N)
            h == metrics.hamming_loss
        IN  /\ h[2] > 0
            /\ h[1] * N * L = wrong * h[2]
            /\ (h = <<0, 1>>) <=> (y_pred = label_ids)
            /\ (h = <<1, 1>>) <=>
                   \A i \in 1..N : \A j \in 1..L : y_pred[i][j] # label_ids[i][j]

\* one wrong slot out of four, in a matrix of two examples and two labels
C4_Witness ==
    /\ pc = "evaluated"
    /\ Rows(label_ids) = 2 /\ Cols(label_ids) = 2
    /\ metrics.hamming_loss = <<1, 4>>
    /\ Cardinality({i \in 1..2 : y_pred[i] # label_ids[i]}) = 1

C7_FittedOnceOnTraining ==
    LET V == TrainVocabulary
        W == Cardinality(V)
    IN  /\ pc \notin {"start", "loaded"} =>
             /\ Len(classes_) = W
             /\ \A j \in 1..W : classes_[j] = Kth(V, j)
             /\ Len(train_labels) = Len(train_df)
             /\ \A i \in 1..Len(train_df) :
                  /\ Len(train_labels[i]) = W
                  /\ \A j \in 1..W :
                       train_labels[i][j] =
                           IF Kth(V, j) \in train_df[i].labels THEN 1 ELSE 0
        /\ pc \notin {"start", "loaded", "fitted"} =>
             /\ Len(test_labels) = Len(test_df)
             /\ \A i \in 1..Len(test_df) :
                  /\ Len(test_labels[i]) = W
                  /\ \A j \in 1..W :
                       test_labels[i][j] =
                           IF Kth(V, j) \in test_df[i].labels THEN 1 ELSE 0
        /\ pc \notin {"start", "loaded", "fitted", "encoded"} => num_labels = W

\* a test example with a label never seen in training beside a known one,
\* encoded over a vocabulary of at least two labels
C7_Witness ==
    /\ pc = "built"
    /\ Cardinality(TrainVocabulary) >= 2
    /\ \E i \in 1..Len(test_df) :
         /\ test_df[i].labels \ TrainVocabulary # {}
         /\ test_df[i].labels \cap TrainVocabulary # {}
         /\ \E j \in 1..num_labels : test_labels[i][j] = 1
         /\ \E j \in 1..num_labels : test_labels[i][j] = 0

(* C8: once fitted, and still when the inference cell starts, encoding is  *)
(* a bijection between the subsets of the fitted vocabulary and the binary *)
(* vectors of its width and decoding inverts it; the inference cell's      *)
(* predicted labels are exactly the labels of the sorted training          *)
(* vocabulary at the positions that hold 1.                                *)
C8_EncoderIsBijection ==
    LET V == TrainVocabulary
        W == Cardinality(V)
        Encode(S) == Transform(classes_, <<S>>)[1]
        Decode(v) == Elements(InverseTransform(classes_, <<v>>)[1])
    IN  /\ pc \in {"fitted", "trained"} =>
             /\ \A S \in SUBSET V : Decode(Encode(S)) = S
             /\ \A S \in SUBSET V : \A T \in SUBSET V :
                  Encode(S) = Encode(T) => S = T
             /\ \A v \in [1..W -> {0, 1}] : Encode(Decode(v)) = v
        /\ pc = "inferred" =>
             /\ Elements(predicted_labels) =
                    {Kth(V, j) : j \in {k \in 1..W : binary_predictions[1][k] = 1}}
             /\ Len(predicted_labels) =
                    Cardinality({k \in 1..W : binary_predictions[1][k] = 1})
             /\ Encode(Elements(predicted_labels)) = binary_predictions[1]

\* the inference cell has decoded a prediction that holds a 1 and a 0
C8_Witness ==
    /\ pc = "inferred"
    /\ Len(classes_) >= 2
    /\ \E j \in 1..Len(classes_) : binary_predictions[1][j] = 1
    /\ \E j \in 1..Len(classes_) : binary_predictions[1][j] = 0
    /\ predicted_labels # <<>>

(* C9: for train_dataset and test_dataset, the number of texts, the number *)
(* of label vectors and __len__ agree (and equal the number of rows of the *)
(* table), __getitem__(idx) yields an encoding and a label vector for      *)
(* every idx in 0..len-1, and no later operation changes this.             *)
C9_DatasetLengthsAgree ==
    pc \notin {"start", "loaded", "fitted", "encoded", "model"} =>
        /\ DatasetLen(train_dataset) = Len(train_df)
        /\ DatasetLen(test_dataset) = Len(test_df)
        /\ \A ds \in {train_dataset, test_dataset} :
             /\ Len(ds.texts) = Len(ds.labels)
             /\ DatasetLen(ds) = Len(ds.texts)
             /\ \A idx \in 0..(DatasetLen(ds) - 1) :
                  /\ idx + 1 \in DOMAIN ds.texts
                  /\ idx + 1 \in DOMAIN ds.labels
                  /\ GetItemResult(ds, idx).labels = ds.labels[idx + 1]
                  /\ GetItemResult(ds, idx).input_ids.of = ds.texts[idx + 1]
                  /\ Len(GetItemResult(ds, idx).labels) = num_labels

\* the last example of a two-row training dataset has been read
C9_Witness ==
    /\ pc = "built"
    /\ DatasetLen(train_dataset) = 2
    /\ DatasetLen(test_dataset) = 1
    /\ item = <<GetItemResult(train_dataset, 1)>>

=============================================================================
